---- MODULE Spec2Model ----
(***************************************************************************)
(* Model of src/signup_documents.py: the Flask service with the three      *)
(* routes /upload-documents, /get-documents and /uploads/applications/<f>. *)
(*                                                                         *)
(* State: the upload folder on disk, the Firebase RTDB sub-tree            *)
(* application/pending, the module-level flag firebase_inited, the clock,  *)
(* the uuid4 generator, and for every request thread the position of its   *)
(* upload_documents call with that call's locals.                          *)
(*                                                                         *)
(* A filename is modelled as the sequence of its '.'-separated parts       *)
(* ("cv.pdf" is <<"cv","pdf">>, "" is <<"">>, "notes" is <<"notes">>), so  *)
(* that rsplit('.', 1), lower() and secure_filename() are computed.        *)
(*                                                                         *)
(* The handlers that write nothing (get_documents, serve_uploaded_file and *)
(* the checks that open upload_documents) are operators giving the         *)
(* response in the current state; their actions leave the state unchanged. *)
(***************************************************************************)
EXTENDS Integers, Sequences, FiniteSets, TLC

\* ------------------------------------------------------------------ bounds
\* Upload requests that get past the checks over a run.
MaxUploads == 2
\* The clock (milliseconds since the process started) stops advancing here.
MaxTime == 1

\* ------------------------------------------------------------ input domains
\* Request threads of the WSGI server.
Threads == {"t1", "t2"}
\* request.form.get('uid'): None (field absent), the empty string, or a uid.
NoUid == "<None>"
Uids == {"u1", "u2"}
UidInputs == {NoUid, ""} \cup Uids
\* request.host_url, as <<origin, trailing slashes>>.
Hosts == {<<"https://api.example", "/">>}
\* Uploaded parts: filename (split on '.') and the bytes sent.
EmptyPart == [filename |-> <<"">>,                 data |-> <<>>]
CvPdf     == [filename |-> <<"cv", "pdf">>,        data |-> <<1>>]
CvUpper   == [filename |-> <<"my/cv", "PDF">>,     data |-> <<2, 2>>]
CvExe     == [filename |-> <<"cv", "pdf", "exe">>, data |-> <<3>>]
Notes     == [filename |-> <<"notes">>,            data |-> <<4, 4>>]
\* The parts a request may carry in each field: one without a filename, one
\* with an allowed extension and one with a disallowed one.
PartsFor(k) ==
    IF k = "studentIdCopy" THEN {EmptyPart, CvUpper, Notes}
    ELSE {EmptyPart, CvPdf, CvExe}
\* Messages of the exceptions a disk write and a store call can raise.
DiskErrors == {"[Errno 28] No space left on device"}
StoreErrors == {"Failed to reach the database"}
\* A file left in the upload folder by an earlier run of the process.
LegacyName == <<0, 0, <<"old", "pdf">>>>
LegacyDisk == [n \in {LegacyName} |-> <<9>>]
\* A record field written under application/pending/{uid} by the signup service.
SiblingRecord == [status |-> "pending"]

\* --------------------------------------------------------------- constants
expected == <<"previousResults", "studentIdCopy", "guardianIdCopy">>
ALLOWED_EXTENSIONS == {"pdf", "jpg", "jpeg", "png"}
ConfigError == "Server firebase not initialized. Check env var."

EmptyMap == [k \in {} |-> <<>>]
Extend(f, k, v) == [x \in DOMAIN f \cup {k} |-> IF x = k THEN v ELSE f[x]]
Range(s) == {s[i] : i \in DOMAIN s}

\* The store when the process starts: u1 has signed up, u2 has no record.
InitialStore == [u \in Uids |-> IF u = "u1" THEN SiblingRecord ELSE EmptyMap]

\* request.files: any subset of the three fields, each with an uploaded part.
FileSets ==
    UNION {{f \in [S -> {EmptyPart, CvPdf, CvUpper, CvExe, Notes}] :
              \A k \in S : f[k] \in PartsFor(k)} : S \in SUBSET Range(expected)}

VARIABLES
    service_key,      \* the credential environment variable at startup
    firebase_inited,  \* module-level flag
    disk,             \* UPLOAD_FOLDER: stored filename -> bytes
    store,            \* RTDB: uid -> record at application/pending/{uid}
    now,              \* the clock, in milliseconds
    uuids,            \* number of uuid4() values drawn so far
    pc,               \* per thread: "idle", "loop" or "update"
    request,          \* per thread: the request being handled
    idx,              \* per thread: position of the for loop in `expected`
    documents,        \* per thread: local `documents`
    meta,             \* per thread: local `meta`
    saved,            \* per thread: stored filenames this request wrote to disk
    resp,             \* the response of the upload that ended in the last step
    nUploads,         \* upload requests that passed the checks so far
    writeLog          \* the successful ref.update calls, in order

vars == <<service_key, firebase_inited, disk, store, now, uuids, pc, request, idx,
          documents, meta, saved, resp, nUploads, writeLog>>

\* ------------------------------------------------------------------ helpers
\* str.lower() on a filename part.
lower(s) == CASE s = "PDF" -> "pdf" [] s = "JPG" -> "jpg" [] OTHER -> s

\* Mutation of allowed_file: the extension is taken after the first '.'
\* (split, not rsplit).
allowed_file_first_dot(filename) ==
    /\ Len(filename) >= 2
    /\ lower(filename[2]) \in ALLOWED_EXTENSIONS

\* Mutation of allowed_file: compares the extension without lower().
allowed_file_case_sensitive(filename) ==
    /\ Len(filename) >= 2
    /\ filename[Len(filename)] \in ALLOWED_EXTENSIONS

\* '.' in filename and filename.rsplit('.', 1)[1].lower() in ALLOWED_EXTENSIONS
allowed_file(filename) ==
    /\ Len(filename) >= 2
    /\ lower(filename[Len(filename)]) \in ALLOWED_EXTENSIONS

\* werkzeug's secure_filename on one part: a path separator becomes an
\* underscore, so the stored name cannot leave the upload folder.
SafePart(s) == CASE s = "my/cv" -> "my_cv" [] OTHER -> s

RECURSIVE StripEmpty(_)
StripEmpty(parts) ==
    IF parts = <<>> THEN <<>>
    ELSE IF Head(parts) = "" THEN StripEmpty(Tail(parts))
    ELSE IF parts[Len(parts)] = "" THEN StripEmpty(SubSeq(parts, 1, Len(parts) - 1))
    ELSE parts

\* secure_filename(file_obj.filename): unsafe characters go, and so do leading
\* and trailing dots.
secure_filename(filename) ==
    StripEmpty([i \in 1..Len(filename) |-> SafePart(filename[i])])

\* Mutation of UniqueName: the uuid4 token is left out of the stored name.
UniqueNameNoToken(ts, token, filename) == <<ts, 0, secure_filename(filename)>>

\* f"{int(datetime.now().timestamp()*1000)}_{uuid.uuid4().hex}_{filename}"
UniqueName(ts, token, filename) == <<ts, token, secure_filename(filename)>>

\* host_url.rstrip('/')
RStripSlash(host_url) == host_url[1]

\* f"{host_url.rstrip('/')}/uploads/applications/{unique}"
PublicUrl(host_url, unique) == <<RStripSlash(host_url), "uploads", "applications", unique>>

\* file_obj.save(dest): the file at dest is created or overwritten.
WriteFile(d, name, bytes) ==
    [n \in DOMAIN d \cup {name} |-> IF n = name THEN bytes ELSE d[n]]

\* Mutation of MetaEntry: storedName holds the sanitized name, not the unique one.
MetaEntryPlainName(file_obj, stored, size) ==
    [originalName |-> file_obj.filename, storedName |-> <<stored[1], 0, stored[3]>>,
     size |-> size]

\* meta[key] = {"originalName": ..., "storedName": stored, "size": size}
MetaEntry(file_obj, stored, size) ==
    [originalName |-> file_obj.filename, storedName |-> stored, size |-> size]

\* Mutation of Missing: a part with an empty filename counts as present.
MissingAbsentOnly(files) ==
    SelectSeq(expected, LAMBDA k : k \notin DOMAIN files)

\* [k for k in expected if k not in request.files or request.files[k].filename == ""]
Missing(files) ==
    SelectSeq(expected, LAMBDA k : k \notin DOMAIN files \/ files[k].filename = <<"">>)

\* `not uid`: None or the empty string.
NotUid(uid) == uid = NoUid \/ uid = ""

\* datetime.utcnow().isoformat()
IsoFormat(ts) == <<"iso", ts>>

\* The dict passed to ref.update.
Payload(docs, m, ts) ==
    [documents |-> docs, documentsMeta |-> m, documentsUploadedAt |-> IsoFormat(ts)]

\* Mutation of RtdbUpdate: documentsMeta is written only when it is absent
\* (the children are not written together).
RtdbUpdateStaleMeta(rec, upd) ==
    [f \in DOMAIN rec \cup DOMAIN upd |->
        IF f \in DOMAIN upd /\ ~(f = "documentsMeta" /\ f \in DOMAIN rec)
        THEN upd[f] ELSE rec[f]]

\* Mutation of RtdbUpdate: set() semantics, the record is replaced.
RtdbSet(rec, upd) == upd

\* Mutation of RtdbUpdate: children that exist are kept (first write wins).
RtdbUpdateKeepExisting(rec, upd) ==
    [f \in DOMAIN rec \cup DOMAIN upd |-> IF f \in DOMAIN rec THEN rec[f] ELSE upd[f]]

\* ref.update(value): the named children are replaced, the others are kept.
RtdbUpdate(rec, upd) ==
    [f \in DOMAIN rec \cup DOMAIN upd |-> IF f \in DOMAIN upd THEN upd[f] ELSE rec[f]]

\* Lines 25-44: the flag is set only when the credential parses and the app
\* initializes; a missing or invalid credential leaves it False.
FirebaseInit(key) == key = "valid"

\* Mutation of NotInited: the handlers do not look at the flag.
NotInitedIgnored == FALSE

\* `if not firebase_inited`
NotInited == ~firebase_inited

\* `if not data`: ref.get() gave None (nothing at the path).
DataIsEmpty(data) == DOMAIN data = {}

\* ---------------------------------------------------------------- responses
NoResp == [op |-> "none"]
NoRequest == [uid |-> NoUid, files |-> EmptyMap, host |-> <<"", "">>, id |-> 0]

\* jsonify({'success': False, 'error': error}), status
ErrorResp(status, error) ==
    [status |-> status, success |-> FALSE, error |-> error,
     documents |-> EmptyMap, meta |-> EmptyMap, data |-> EmptyMap]

\* jsonify({'success': True, 'documents': documents, 'meta': meta})
UploadOk(docs, m) ==
    [status |-> 200, success |-> TRUE, error |-> <<>>,
     documents |-> docs, meta |-> m, data |-> EmptyMap]

\* jsonify({'success': True, 'data': data})
GetOk(data) ==
    [status |-> 200, success |-> TRUE, error |-> <<>>,
     documents |-> EmptyMap, meta |-> EmptyMap, data |-> data]

\* The checks passed: the handler goes on to the loop (no response yet).
Proceed ==
    [status |-> 0, success |-> TRUE, error |-> <<>>,
     documents |-> EmptyMap, meta |-> EmptyMap, data |-> EmptyMap]

\* No call raised / the call `by` raised an exception with message msg.
NoRaise == [by |-> "none", msg |-> ""]
Raise(by, e) == [by |-> by, msg |-> e]

\* What a finished upload leaves in `resp`: the response, with the request it
\* answers, the stored filenames that request wrote and the exception that
\* ended it, if one did.
Ended(t, r, raised) ==
    [op |-> "upload", thread |-> t, request |-> request[t], saved |-> saved[t],
     raised |-> raised, response |-> r]

\* -------------------------------------------------------------------- Init
Init ==
    /\ service_key \in {"absent", "invalid", "valid"}
    /\ firebase_inited = FirebaseInit(service_key)
    /\ disk = LegacyDisk
    /\ store = InitialStore
    /\ now = 0
    /\ uuids = 0
    /\ pc = [t \in Threads |-> "idle"]
    /\ request = [t \in Threads |-> NoRequest]
    /\ idx = [t \in Threads |-> 0]
    /\ documents = [t \in Threads |-> EmptyMap]
    /\ meta = [t \in Threads |-> EmptyMap]
    /\ saved = [t \in Threads |-> <<>>]
    /\ resp = NoResp
    /\ nUploads = 0
    /\ writeLog = <<>>

\* The thread's locals are dropped when its handler returns.
Return(t) ==
    /\ pc' = [pc EXCEPT ![t] = "idle"]
    /\ request' = [request EXCEPT ![t] = NoRequest]
    /\ idx' = [idx EXCEPT ![t] = 0]
    /\ documents' = [documents EXCEPT ![t] = EmptyMap]
    /\ meta' = [meta EXCEPT ![t] = EmptyMap]
    /\ saved' = [saved EXCEPT ![t] = <<>>]

ThreadVars == <<pc, request, idx, documents, meta, saved>>
ConfigVars == <<service_key, firebase_inited>>

\* ------------------------------------------------- POST /upload-documents
\* Lines 72-84: the checks made before any file is touched. The result is the
\* error response, or Proceed when the request goes on to the loop.
UploadChecks(uid, files) ==
    IF NotInited THEN ErrorResp(500, <<ConfigError>>)
    ELSE IF NotUid(uid) THEN ErrorResp(400, <<"Missing uid">>)
    ELSE IF Missing(files) # <<>> THEN ErrorResp(400, <<"Missing files", Missing(files)>>)
    ELSE Proceed

\* The thread that takes the next request: a free one (which one is
\* immaterial, the threads run the same code), none when all are busy.
FreeThread ==
    IF pc["t1"] = "idle" THEN "t1" ELSE IF pc["t2"] = "idle" THEN "t2" ELSE "none"

\* Lines 72-84: a request that fails a check is answered at once; nothing is
\* read or written besides the request.
UploadRejected ==
    /\ FreeThread \in Threads
    /\ ~(\A uid \in UidInputs, files \in FileSets : UploadChecks(uid, files) = Proceed)
    /\ UNCHANGED vars

\* Lines 86-89: the checks passed, the loop over `expected` starts.
UploadAccepted(t, uid, files, host) ==
    /\ t = FreeThread /\ nUploads < MaxUploads
    /\ UploadChecks(uid, files) = Proceed
    /\ pc' = [pc EXCEPT ![t] = "loop"]
    /\ request' = [request EXCEPT ![t] =
                     [uid |-> uid, files |-> files, host |-> host, id |-> nUploads + 1]]
    /\ idx' = [idx EXCEPT ![t] = 1]
    /\ documents' = [documents EXCEPT ![t] = EmptyMap]
    /\ meta' = [meta EXCEPT ![t] = EmptyMap]
    /\ saved' = [saved EXCEPT ![t] = <<>>]
    /\ resp' = NoResp
    /\ nUploads' = nUploads + 1
    /\ UNCHANGED <<ConfigVars, disk, store, now, uuids, writeLog>>

\* The part the loop is at, and its form field.
CurKey(t) == expected[idx[t]]
CurFile(t) == request[t].files[CurKey(t)]

\* Mutation of RejectsAt: every remaining extension is validated before the
\* next file is saved (validation hoisted out of the loop).
RejectsAtAnyLater(files, i) ==
    \E j \in i..Len(expected) : ~allowed_file(files[expected[j]].filename)

\* Line 94, at position i of the loop: `if not allowed_file(file_obj.filename)`.
RejectsAt(files, i) == ~allowed_file(files[expected[i]].filename)

\* Lines 94-95: the first part with a disallowed extension ends the request;
\* what was saved before it stays on disk.
LoopReject(t) ==
    /\ pc[t] = "loop"
    /\ RejectsAt(request[t].files, idx[t])
    /\ resp' = Ended(t, ErrorResp(400, <<"Invalid file type for", CurKey(t)>>), NoRaise)
    /\ Return(t)
    /\ UNCHANGED <<ConfigVars, disk, store, now, uuids, nUploads, writeLog>>

\* Lines 97-103 with save_file_and_get_url (53-64): the part is written under
\* a fresh name, and its URL and metadata are recorded.
LoopSave(t) ==
    /\ pc[t] = "loop"
    /\ ~RejectsAt(request[t].files, idx[t])
    /\ LET file_obj == CurFile(t)
           unique == UniqueName(now, uuids + 1, file_obj.filename)
           size == Len(file_obj.data)
       IN  /\ uuids' = uuids + 1
           /\ disk' = WriteFile(disk, unique, file_obj.data)
           /\ documents' = [documents EXCEPT ![t] =
                              Extend(@, CurKey(t), PublicUrl(request[t].host, unique))]
           /\ meta' = [meta EXCEPT ![t] =
                         Extend(@, CurKey(t), MetaEntry(file_obj, unique, size))]
           /\ saved' = [saved EXCEPT ![t] = Append(@, unique)]
    /\ idx' = [idx EXCEPT ![t] = @ + 1]
    /\ pc' = [pc EXCEPT ![t] = IF idx[t] = Len(expected) THEN "update" ELSE "loop"]
    /\ resp' = NoResp
    /\ UNCHANGED <<ConfigVars, store, now, request, nUploads, writeLog>>

\* os.makedirs raises (line 55): nothing is written; lines 115-117 answer 500.
LoopMkdirFails(t, e) ==
    /\ pc[t] = "loop"
    /\ ~RejectsAt(request[t].files, idx[t])
    /\ resp' = Ended(t, ErrorResp(500, <<e>>), Raise("disk", e))
    /\ Return(t)
    /\ UNCHANGED <<ConfigVars, disk, store, now, uuids, nUploads, writeLog>>

\* file_obj.save raises part-way (line 61): the first n bytes stay in a file
\* under the fresh name; lines 115-117 answer 500.
LoopSaveFails(t, e, n) ==
    /\ pc[t] = "loop"
    /\ ~RejectsAt(request[t].files, idx[t])
    /\ n < Len(CurFile(t).data)
    /\ LET file_obj == CurFile(t)
           unique == UniqueName(now, uuids + 1, file_obj.filename)
       IN  /\ uuids' = uuids + 1
           /\ disk' = WriteFile(disk, unique, SubSeq(file_obj.data, 1, n))
           /\ resp' = [Ended(t, ErrorResp(500, <<e>>), Raise("disk", e))
                        EXCEPT !.saved = Append(@, unique)]
    /\ Return(t)
    /\ UNCHANGED <<ConfigVars, store, now, nUploads, writeLog>>

\* Lines 106-113: the one ref.update, then the 200 response.
UploadUpdate(t) ==
    /\ pc[t] = "update"
    /\ LET uid == request[t].uid
           value == Payload(documents[t], meta[t], now)
       IN  /\ store' = [store EXCEPT ![uid] = RtdbUpdate(@, value)]
           /\ writeLog' = Append(writeLog, [id |-> request[t].id, uid |-> uid, files |-> request[t].files,
                                       value |-> value])
    /\ resp' = Ended(t, UploadOk(documents[t], meta[t]), NoRaise)
    /\ Return(t)
    /\ UNCHANGED <<ConfigVars, disk, now, uuids, nUploads>>

\* ref.update raises (line 107): nothing is written; lines 115-117 answer 500.
UploadUpdateFails(t, e) ==
    /\ pc[t] = "update"
    /\ resp' = Ended(t, ErrorResp(500, <<e>>), Raise("store", e))
    /\ Return(t)
    /\ UNCHANGED <<ConfigVars, disk, store, now, uuids, nUploads, writeLog>>

\* ----------------------------------------------------- GET /get-documents
\* Lines 123-142. raises is the message of the exception ref.get() raises,
\* <<>> when it answers.
get_documents(uid, raises) ==
    IF NotInited THEN ErrorResp(500, <<ConfigError>>)
    ELSE IF NotUid(uid) THEN ErrorResp(400, <<"Missing uid">>)
    ELSE IF raises # <<>> THEN ErrorResp(500, raises)
    ELSE IF DataIsEmpty(store[uid]) THEN ErrorResp(404, <<"No documents found">>)
    ELSE GetOk(store[uid])

\* The handler reads the store and writes nothing.
GetDocuments ==
    /\ ~(\A uid \in UidInputs, raises \in {<<>>} \cup {<<e>> : e \in StoreErrors} :
           get_documents(uid, raises).status < 200)
    /\ UNCHANGED vars

\* ------------------------------------- GET /uploads/applications/<filename>
\* send_from_directory: 404 unless the file is in the folder.
FileExists(d, name) == name \in DOMAIN d

\* Lines 148-151: the file's bytes, or 404.
serve_uploaded_file(name) ==
    IF FileExists(disk, name) THEN [status |-> 200, body |-> disk[name]]
    ELSE [status |-> 404, body |-> <<>>]

\* A name no save can produce (its timestamp is negative).
NeverStoredName == <<-1, 0, <<"cv", "pdf">>>>
ServeNames == DOMAIN disk \cup {NeverStoredName}

\* The handler reads the folder and writes nothing.
ServeUploadedFile ==
    /\ ~(\A name \in ServeNames : serve_uploaded_file(name).status < 200)
    /\ UNCHANGED vars

\* ------------------------------------------------------------------ clock
Tick ==
    /\ now < MaxTime
    /\ now' = now + 1
    /\ resp' = NoResp
    /\ UNCHANGED <<ConfigVars, disk, store, uuids, ThreadVars, nUploads, writeLog>>

Next ==
    \/ UploadRejected
    \/ \E t \in Threads, uid \in UidInputs, files \in FileSets, host \in Hosts :
         UploadAccepted(t, uid, files, host)
    \/ \E t \in Threads : LoopReject(t)
    \/ \E t \in Threads : LoopSave(t)
    \/ \E t \in Threads, e \in DiskErrors : LoopMkdirFails(t, e)
    \/ \E t \in Threads, e \in DiskErrors, n \in 0..1 : LoopSaveFails(t, e, n)
    \/ \E t \in Threads : UploadUpdate(t)
    \/ \E t \in Threads, e \in StoreErrors : UploadUpdateFails(t, e)
    \/ GetDocuments
    \/ ServeUploadedFile
    \/ Tick

Spec == Init /\ [][Next]_vars

\* ==================================================================== claims
\* What the claims speak of, stated apart from the handlers' own helpers.
FieldNames == {"previousResults", "studentIdCopy", "guardianIdCopy"}
Pos(k) == CHOOSE p \in 1..3 : expected[p] = k
\* The part is there and has a filename.
Present(files, k) == k \in DOMAIN files /\ files[k].filename # <<"">>
AllPresent(files) == \A k \in FieldNames : Present(files, k)
\* The text after the last '.', whatever its case, is pdf, jpg, jpeg or png.
HasAllowedExt(filename) ==
    /\ Len(filename) >= 2
    /\ filename[Len(filename)] \in
         {"pdf", "jpg", "jpeg", "png", "PDF", "JPG", "JPEG", "PNG"}
AllValid(files) ==
    AllPresent(files) /\ \A k \in FieldNames : HasAllowedExt(files[k].filename)
HasBadExt(files) ==
    AllPresent(files) /\ \E k \in FieldNames : ~HasAllowedExt(files[k].filename)
\* The first field, in the fixed order, whose extension is not allowed.
FirstBad(files) ==
    expected[CHOOSE i \in 1..3 :
                /\ ~HasAllowedExt(files[expected[i]].filename)
                /\ \A j \in 1..(i - 1) : HasAllowedExt(files[expected[j]].filename)]
\* list names exactly the fields that are absent or unnamed, in the fixed order.
ListsMissing(list, files) ==
    /\ \A k \in FieldNames : (\E i \in DOMAIN list : list[i] = k) <=> ~Present(files, k)
    /\ \A i, j \in DOMAIN list : i < j => Pos(list[i]) < Pos(list[j])
\* The ref.update calls that succeeded for uid, in order.
WritesFor(uid) == SelectSeq(writeLog, LAMBDA w : w.uid = uid)
LastWrite(uid) == WritesFor(uid)[Len(WritesFor(uid))]
WroteToStore(id) == \E i \in DOMAIN writeLog : writeLog[i].id = id
UploadEnded == resp.op = "upload"
NoReadError == <<>>
ReadErrors == {<<e>> : e \in StoreErrors}

C3_BadExtensionAlways400 ==
    (UploadEnded /\ HasBadExt(resp.request.files)) =>
        /\ resp.response.status = 400
        /\ resp.response.error = <<"Invalid file type for", FirstBad(resp.request.files)>>
        /\ ~WroteToStore(resp.request.id)

\* C3, amended: such an upload is answered 400 naming the first field with a
\* disallowed extension unless saving one of the valid parts before it raised,
\* in which case it is answered 500 with the exception's message; either way
\* it never reaches the store write, so the record is not written by it.
C3_BadExtensionRejected ==
    /\ (UploadEnded /\ HasBadExt(resp.request.files)) =>
         /\ \/ /\ resp.raised.by = "none"
               /\ resp.response.status = 400
               /\ resp.response.error =
                    <<"Invalid file type for", FirstBad(resp.request.files)>>
            \/ /\ resp.raised.by = "disk"
               /\ resp.response.status = 500
               /\ resp.response.error = <<resp.raised.msg>>
               /\ Len(resp.saved) <= Pos(FirstBad(resp.request.files)) - 1
         /\ ~WroteToStore(resp.request.id)
    /\ \A t \in Threads : pc[t] = "update" => ~HasBadExt(request[t].files)

\* An upload whose last part is cv.pdf.exe was answered 400 after its first
\* two parts were saved.
C3_Witness ==
    /\ UploadEnded
    /\ resp.request.files["guardianIdCopy"] = CvExe
    /\ resp.response.error = <<"Invalid file type for", "guardianIdCopy">>
    /\ Len(resp.saved) = 2

\* C4: when the store client did not initialize, every upload and every lookup
\* is answered 500 with the configuration error whatever its inputs, no thread
\* leaves idle, and nothing is written to the disk or the store; the file
\* route answers from the folder alone, initialized or not.
C4_UninitializedStore ==
    /\ ~firebase_inited =>
         /\ \A uid \in UidInputs, files \in FileSets :
               UploadChecks(uid, files) = ErrorResp(500, <<ConfigError>>)
         /\ \A uid \in UidInputs, raises \in {NoReadError} \cup ReadErrors :
               get_documents(uid, raises) = ErrorResp(500, <<ConfigError>>)
         /\ \A t \in Threads : pc[t] = "idle"
         /\ disk = LegacyDisk /\ store = InitialStore
         /\ uuids = 0 /\ writeLog = <<>> /\ resp = NoResp
    /\ \A name \in ServeNames :
         serve_uploaded_file(name) =
            IF name \in DOMAIN disk THEN [status |-> 200, body |-> disk[name]]
            ELSE [status |-> 404, body |-> <<>>]

\* The credential was invalid: a complete, valid upload is answered 500 and the
\* file route still serves the file that is in the folder.
C4_Witness ==
    /\ service_key = "invalid"
    /\ ~firebase_inited
    /\ UploadChecks("u1", [k \in FieldNames |-> CvPdf]).status = 500
    /\ serve_uploaded_file(LegacyName) = [status |-> 200, body |-> <<9>>]

StartsEmpty(uid) == DOMAIN InitialStore[uid] = {}
UploadFields == {"documents", "documentsMeta", "documentsUploadedAt"}
\* Stored files are never modified or deleted.
FilesStay == \A n \in DOMAIN disk : n \in DOMAIN disk' /\ disk'[n] = disk[n]

\* What C5 says a lookup of uid answers when ref.get() answers: 404 before any
\* upload for uid succeeded, then 200 with the documents of the latest one.
LookupMatchesUploads(uid, r) ==
    IF WritesFor(uid) = <<>>
    THEN r.status = 404 /\ ~r.success
    ELSE /\ r.status = 200 /\ r.success
         /\ "documents" \in DOMAIN r.data
         /\ r.data["documents"] = LastWrite(uid).value["documents"]

\* C5 as stated: after any requests, from a store with nothing at X's path, a
\* lookup of X answers 404 when no upload for X succeeded and 200 with the
\* latest successful upload's documents otherwise; without a uid it answers 400.
C5_LookupAlwaysAnswers ==
    \A raises \in {NoReadError} \cup ReadErrors :
       /\ \A X \in Uids :
             StartsEmpty(X) => LookupMatchesUploads(X, get_documents(X, raises))
       /\ \A uid \in {NoUid, ""} : get_documents(uid, raises).status = 400

\* C5, amended: that holds provided the store client initialized at startup
\* and ref.get() does not raise; when ref.get() raises, the lookup of a uid is
\* answered 500 with the exception's message (and when the client did not
\* initialize, every lookup is answered 500).
C5_LookupAnswers ==
    firebase_inited =>
       /\ \A X \in Uids :
             StartsEmpty(X) =>
                /\ LookupMatchesUploads(X, get_documents(X, NoReadError))
                /\ \A raises \in ReadErrors :
                      get_documents(X, raises) = ErrorResp(500, raises)
       /\ \A uid \in {NoUid, ""}, raises \in {NoReadError} \cup ReadErrors :
             get_documents(uid, raises) = ErrorResp(400, <<"Missing uid">>)

\* Two uploads for u2 succeeded with different documents; the lookup answers
\* 200 with the second one's.
C5_Witness ==
    /\ firebase_inited
    /\ Len(WritesFor("u2")) = 2
    /\ WritesFor("u2")[1].value["documents"] # WritesFor("u2")[2].value["documents"]
    /\ get_documents("u2", NoReadError).status = 200
    /\ get_documents("u2", NoReadError).data["documents"]
         = WritesFor("u2")[2].value["documents"]

\* C6: every save writes under a name that no file on disk has, so it
\* overwrites nothing and the folder grows by exactly one file per save, also
\* for the same original filename in the same millisecond, within one request
\* or across concurrent ones; the folder changes in no other way.
C6_FreshStoredNames ==
    /\ [](Cardinality(DOMAIN disk) = Cardinality(DOMAIN LegacyDisk) + uuids)
    /\ [][/\ (uuids' # uuids =>
               /\ \E n \in DOMAIN disk' :
                     n \notin DOMAIN disk /\ DOMAIN disk' = DOMAIN disk \cup {n}
               /\ FilesStay
               /\ Cardinality(DOMAIN disk') = Cardinality(DOMAIN disk) + 1)
           /\ (disk' # disk => uuids' # uuids)]_vars

\* Two concurrent requests have saved cv.pdf in the same millisecond, one of
\* them twice, under different names.
C6_Witness ==
    /\ pc["t1"] # "idle" /\ pc["t2"] # "idle"
    /\ \E i, j \in DOMAIN saved["t1"] :
          /\ i < j
          /\ saved["t1"][i][1] = saved["t1"][j][1]
          /\ saved["t1"][i][3] = saved["t1"][j][3]
          /\ \E h \in DOMAIN saved["t2"] :
                /\ saved["t2"][h][1] = saved["t1"][i][1]
                /\ saved["t2"][h][3] = saved["t1"][i][3]
    /\ \A t \in Threads : \A i \in DOMAIN saved[t] : saved[t][i] \in DOMAIN disk

\* C7: a step that changes the record of a uid is the store write of a
\* successful upload for that uid; it changes only documents, documentsMeta
\* and documentsUploadedAt there, every other field of the record keeps its
\* value, and the records of the other uids are unchanged.
C7_MergeWrite ==
    [][\A u \in Uids :
          store'[u] # store[u] =>
             /\ resp'.op = "upload"
             /\ resp'.response.status = 200
             /\ resp'.request.uid = u
             /\ DOMAIN store'[u] = DOMAIN store[u] \cup UploadFields
             /\ \A f \in DOMAIN store[u] \ UploadFields : store'[u][f] = store[u][f]
             /\ \A v \in Uids \ {u} : store'[v] = store[v]]_vars

\* A second upload for u1 has just succeeded; the field the signup service
\* wrote is still in the record, and u2's record was never written.
C7_Witness ==
    /\ UploadEnded /\ resp.response.status = 200 /\ resp.request.uid = "u1"
    /\ Len(WritesFor("u1")) = 2
    /\ store["u1"]["status"] = "pending"
    /\ store["u1"]["documents"] = resp.response.documents
    /\ store["u2"] = InitialStore["u2"]

\* C8: after uploads for one uid, concurrent or not, the record holds in
\* documents, documentsMeta and documentsUploadedAt what the upload whose
\* store write came last wrote; documents and documentsMeta always come from
\* one and the same write.
C8_LastWriteWins ==
    \A u \in Uids :
       IF WritesFor(u) = <<>>
       THEN store[u] = InitialStore[u]
       ELSE /\ UploadFields \subseteq DOMAIN store[u]
            /\ \A f \in UploadFields : store[u][f] = LastWrite(u).value[f]
            /\ \E i \in DOMAIN writeLog :
                  /\ store[u]["documents"] = writeLog[i].value["documents"]
                  /\ store[u]["documentsMeta"] = writeLog[i].value["documentsMeta"]

\* Two uploads for u1 overlapped: the one accepted first wrote last, both
\* succeeded, and the record holds what the later write wrote.
C8_Witness ==
    /\ Len(writeLog) = 2
    /\ writeLog[1].uid = "u1" /\ writeLog[2].uid = "u1"
    /\ writeLog[1].id = 2 /\ writeLog[2].id = 1
    /\ writeLog[1].value # writeLog[2].value
    /\ store["u1"]["documentsMeta"] = writeLog[2].value["documentsMeta"]
    /\ \A t \in Threads : pc[t] = "idle"

\* C9: no rollback. An upload answered 400 for the field at position k has
\* saved exactly the parts before k, which are on disk in full, and none from
\* k on. An upload whose store write raised is answered 500 with the
\* exception's message, its three files are on disk, and the step leaves the
\* store as it was. Files on disk are never removed or changed afterwards.
C9_NoRollback ==
    /\ [](UploadEnded =>
            /\ ((resp.raised.by = "none" /\ resp.response.status = 400) =>
                  /\ Len(resp.response.error) = 2
                  /\ resp.response.error[1] = "Invalid file type for"
                  /\ resp.response.error[2] = FirstBad(resp.request.files)
                  /\ Len(resp.saved) = Pos(resp.response.error[2]) - 1)
            /\ (resp.raised.by = "store" =>
                  /\ resp.response.status = 500
                  /\ resp.response.error = <<resp.raised.msg>>
                  /\ Len(resp.saved) = 3
                  /\ ~WroteToStore(resp.request.id))
            /\ (resp.raised.by \in {"none", "store"} =>
                  /\ \A i \in DOMAIN resp.saved :
                        /\ resp.saved[i] \in DOMAIN disk
                        /\ disk[resp.saved[i]] = resp.request.files[expected[i]].data
                  /\ \A i, j \in DOMAIN resp.saved : i # j => resp.saved[i] # resp.saved[j]))
    /\ [][/\ FilesStay
          /\ ((resp'.op = "upload" /\ resp'.response.status # 200) => store' = store)]_vars

\* An upload was answered 400 for its second part after the first was saved.
C9_WitnessRejected ==
    /\ UploadEnded
    /\ resp.response.error = <<"Invalid file type for", "studentIdCopy">>
    /\ Len(resp.saved) = 1
    /\ disk[resp.saved[1]] = resp.request.files["previousResults"].data

\* The store write of an upload raised after its three files were saved.
C9_WitnessStoreRaises ==
    /\ UploadEnded
    /\ resp.raised.by = "store"
    /\ resp.response.status = 500
    /\ Len(resp.saved) = 3
    /\ \A i \in 1..3 : resp.saved[i] \in DOMAIN disk

\* C9's witness: both cases are reached (as one state predicate, the rejected
\* upload is the last one ended and an earlier one left an orphaned file).
C9_Witness ==
    /\ C9_WitnessRejected
    /\ Cardinality(DOMAIN disk) > 1 + Len(resp.saved)

\* C10: every record the service wrote names, in each documentsMeta entry and
\* the matching URL, a file that is on disk with the bytes and the size the
\* writing request uploaded, so the file route serves those bytes; a name not
\* on disk is answered 404; stored files are never modified or deleted.
C10_RecordsNameStoredFiles ==
    /\ [](/\ \A u \in Uids :
               "documentsMeta" \in DOMAIN store[u] =>
                  /\ WritesFor(u) # <<>>
                  /\ \A k \in FieldNames :
                        LET m == store[u]["documentsMeta"][k]
                            sent == LastWrite(u).files[k]
                        IN  /\ m.storedName \in DOMAIN disk
                            /\ disk[m.storedName] = sent.data
                            /\ m.size = Len(sent.data)
                            /\ m.originalName = sent.filename
                            /\ \E h \in Hosts :
                                  store[u]["documents"][k]
                                    = <<h[1], "uploads", "applications", m.storedName>>
                            /\ serve_uploaded_file(m.storedName)
                                 = [status |-> 200, body |-> sent.data]
          /\ serve_uploaded_file(NeverStoredName).status = 404
          /\ \A f \in {CvPdf, CvUpper} :
                serve_uploaded_file(<<now, uuids + 1, secure_filename(f.filename)>>).status
                  = 404)
    /\ [][FilesStay]_vars

\* Both uids have a record; u1's was written while a later disk failure and a
\* rejected upload left other files in the folder.
C10_Witness ==
    /\ "documentsMeta" \in DOMAIN store["u1"]
    /\ "documentsMeta" \in DOMAIN store["u2"]
    /\ serve_uploaded_file(store["u2"]["documentsMeta"]["studentIdCopy"].storedName)
         = [status |-> 200, body |-> <<2, 2>>]

====
